---- MODULE Spec2Model ----
(***************************************************************************)
(* Model of src/src/fyers/fyers.py: the subscription reconcile loop of     *)
(* FyersMarketData, its tick cache, and the FyersSymbolParser lookups.     *)
(***************************************************************************)
EXTENDS Integers, Sequences, FiniteSets, TLC

(***************************************************************************)
(* Bounds of the model.                                                    *)
(***************************************************************************)
\* Number of subscribe()/unsubscribe() calls the callers make in a concurrent run.
MaxRequests == 2
\* Number of subscribe()/unsubscribe() calls made in a sequential run.
MaxSeqRequests == 2
\* Longest symbol list a caller passes to subscribe()/unsubscribe().
MaxArgLen == 1
\* Number of rows of the symbol master file.
MaxRows == 2
\* Number of deliveries the streaming connection makes in a run.
MaxDeliveries == 3
\* Number of decoded messages in one delivery.
MaxDeliveryLen == 2

(***************************************************************************)
(* Values.                                                                 *)
(***************************************************************************)
NIFTY50 == "NSE:NIFTY50-INDEX"
NIFTYBANK == "NSE:NIFTYBANK-INDEX"
SBIN == "NSE:SBIN-EQ"
Symbols == {NIFTY50, NIFTYBANK, SBIN}

\* Threads that call the static subscribe()/unsubscribe().
Callers == {"caller1", "caller2"}

\* Optional[...] values: None is the empty sequence, a value v is <<v>>.
None == <<>>
Some(v) == <<v>>

Range(s) == {s[i] : i \in 1..Len(s)}
Member(x, s) == \E i \in 1..Len(s) : s[i] = x
Last(s) == s[Len(s)]

\* Non-empty lists of symbols of length at most n.
SymbolLists(n) == UNION {[1..k -> Symbols] : k \in 1..n}

VARIABLES
    \* FyersMarketData class-level state
    existing_subscribe_symbol,  \* list: currently subscribed symbols
    symbols_to_subscribe,       \* list: pending subscribe
    symbols_to_unsubscribe,     \* list: pending unsubscribe
    \* the thread running FyersMarketData.run
    loop_pc,                    \* position in _subscribe / _unsubscribe
    loop_i,                     \* index of the running list comprehension
    loop_symbol,                \* the local list `symbol`
    \* caller threads inside subscribe() / unsubscribe()
    caller_pc,                  \* "idle", "subscribe" or "unsubscribe"
    caller_arg,                 \* the list passed by the caller
    caller_stale,               \* the list object the caller loaded was rebound since
    \* the streaming connection, as the calls it received
    sub_calls,                  \* batches passed to _web_socket.subscribe
    unsub_calls,                \* batches passed to _web_socket.unsubscribe
    conn_symbols,               \* symbols the connection streams after those calls
    \* history
    requested_sub,              \* symbols ever passed to subscribe()
    requested_unsub,            \* symbols ever passed to unsubscribe()
    n_requests,                 \* calls made so far
    trace,                      \* requests and passes, in order (sequential runs)
    \* FyersSymbolParser
    master,                     \* the rows of the symbol master file
    tz_offset,                  \* the local zone of the process: seconds east of UTC
    nifty_df,                   \* self._nifty_df
    banknifty_df,               \* self._banknifty_df
    expiry,                     \* self._expiry
    parser_pc,                  \* "new", "ready" after setup(), "called" in a lookup, "error"
    parser_call,                \* the last lookup made: its arguments and outcome
    \* the tick cache of FyersMarketData
    market_data,                \* __market_data: symbol -> MarketData
    tick_pc,                    \* add_market_data: "idle", or "store" before the dict store
    tick_new,                   \* the MarketData built and not yet stored
    tick_error,                 \* the exception the last add_market_data raised
    n_deliveries,               \* deliveries made so far
    applied,                    \* the messages stored in the cache, in order
    \* a thread inside get_price
    read_pc,                    \* "idle", "lookup", "attr" or "done"
    read_symbol,                \* the argument of get_price
    read_obj,                   \* the MarketData object the reader holds
    read_result,                \* the value get_price returns
    read_overlap,               \* a tick was stored while this get_price ran
    \* FyersApi and its surroundings
    api_pc,                     \* position in FyersApi.setup
    token_file,                 \* fyers_token_file: None, or its token and its age
    file_token_status,          \* what get_profile answers for the token first in the file
    access_token,               \* self._access_token
    next_token,                 \* the token the next login returns
    fyers_token,                \* the token self._fyers was built with
    market_token,               \* the token the market-data thread was built with
    order_token                 \* the token the order-data thread was built with

subVars == <<existing_subscribe_symbol, symbols_to_subscribe, symbols_to_unsubscribe,
             loop_pc, loop_i, loop_symbol, caller_pc, caller_arg, caller_stale,
             sub_calls, unsub_calls, conn_symbols,
             requested_sub, requested_unsub, n_requests>>

parserVars == <<master, tz_offset, nifty_df, banknifty_df, expiry, parser_pc, parser_call>>

tickVars == <<market_data, tick_pc, tick_new, tick_error, n_deliveries, applied,
              read_pc, read_symbol, read_obj, read_result, read_overlap>>

apiVars == <<api_pc, token_file, file_token_status, access_token, next_token,
             fyers_token, market_token, order_token>>

vars == <<subVars, trace, parserVars, tickVars, apiVars>>

(***************************************************************************)
(* FyersMarketData: list operations of _subscribe / _unsubscribe.          *)
(***************************************************************************)
\* `x not in __existing_subscribe_symbol`, inverted
SubscribeFilterKeepsInverted(x, existing) == Member(x, existing)

\* the comprehension of _subscribe without its condition
SubscribeFilterKeepsAll(x, existing) == TRUE

\* the condition of the comprehension in _subscribe
SubscribeFilterKeeps(x, existing) == ~Member(x, existing)

\* the comprehension of _unsubscribe without its condition
UnsubscribeFilterKeepsAll(x, existing) == TRUE

\* the condition of the comprehension in _unsubscribe
UnsubscribeFilterKeeps(x, existing) == Member(x, existing)

\* list.extend
ExtendList(l, items) == l \o items

\* the comprehension of _unsubscribe with `x in symbol` for `x not in symbol`
RemoveSymbolsInverted(existing, symbol) ==
    SelectSeq(existing, LAMBDA x : Member(x, symbol))

\* lines 424-426 left out: the active list is not rebuilt
RemoveSymbolsOmitted(existing, symbol) == existing

\* the comprehension that rebuilds __existing_subscribe_symbol in _unsubscribe
RemoveSymbols(existing, symbol) ==
    SelectSeq(existing, LAMBDA x : ~Member(x, symbol))

SubInit ==
    /\ existing_subscribe_symbol = <<>>
    /\ symbols_to_subscribe = <<NIFTY50, NIFTYBANK>>
    /\ symbols_to_unsubscribe = <<>>
    /\ loop_pc = "sub_check"
    /\ loop_i = 1
    /\ loop_symbol = <<>>
    /\ caller_pc = [c \in Callers |-> "idle"]
    /\ caller_arg = [c \in Callers |-> <<>>]
    /\ caller_stale = [c \in Callers |-> FALSE]
    /\ sub_calls = <<>>
    /\ unsub_calls = <<>>
    /\ conn_symbols = {}
    /\ requested_sub = {}
    /\ requested_unsub = {}
    /\ n_requests = 0

loopLocals == <<loop_i, loop_symbol>>
lists == <<existing_subscribe_symbol, symbols_to_subscribe, symbols_to_unsubscribe>>
callerVars == <<caller_pc, caller_arg, caller_stale>>
connVars == <<sub_calls, unsub_calls, conn_symbols>>
histVars == <<requested_sub, requested_unsub, n_requests>>

\* _subscribe, line 404: `if FyersMarketData.__symbols_to_subscribe:`
SubCheck ==
    /\ loop_pc = "sub_check"
    /\ IF symbols_to_subscribe # <<>>
       THEN /\ loop_pc' = "sub_iter"
            /\ loop_i' = 1
            /\ loop_symbol' = <<>>
       ELSE /\ loop_pc' = "unsub_check"
            /\ UNCHANGED loopLocals
    /\ UNCHANGED <<lists, callerVars, connVars, histVars>>

\* _subscribe, lines 405-409: one element of the comprehension, or its end and
\* the test `if symbol:`
SubIter ==
    /\ loop_pc = "sub_iter"
    /\ IF loop_i <= Len(symbols_to_subscribe)
       THEN /\ loop_symbol' =
                  IF SubscribeFilterKeeps(symbols_to_subscribe[loop_i],
                                          existing_subscribe_symbol)
                  THEN Append(loop_symbol, symbols_to_subscribe[loop_i])
                  ELSE loop_symbol
            /\ loop_i' = loop_i + 1
            /\ UNCHANGED loop_pc
       ELSE /\ loop_pc' = IF loop_symbol # <<>> THEN "sub_call" ELSE "sub_reset"
            /\ UNCHANGED loopLocals
    /\ UNCHANGED <<lists, callerVars, connVars, histVars>>

\* _subscribe, line 411: self._web_socket.subscribe(symbol=symbol, ...)
SubCall ==
    /\ loop_pc = "sub_call"
    /\ sub_calls' = Append(sub_calls, loop_symbol)
    /\ conn_symbols' = conn_symbols \cup Range(loop_symbol)
    /\ loop_pc' = "sub_extend"
    /\ UNCHANGED <<lists, loopLocals, callerVars, unsub_calls, histVars>>

\* _subscribe, line 412: __existing_subscribe_symbol.extend(symbol)
SubExtend ==
    /\ loop_pc = "sub_extend"
    /\ existing_subscribe_symbol' = ExtendList(existing_subscribe_symbol, loop_symbol)
    /\ loop_pc' = "sub_reset"
    /\ UNCHANGED <<symbols_to_subscribe, symbols_to_unsubscribe, loopLocals,
                   callerVars, connVars, histVars>>

\* _subscribe with line 413 moved under `if symbol:`: the pending list is
\* cleared only when a batch was sent
SubResetOnlyIfBatch ==
    /\ loop_pc = "sub_reset"
    /\ symbols_to_subscribe' =
           IF loop_symbol # <<>> THEN <<>> ELSE symbols_to_subscribe
    /\ caller_stale' = [c \in Callers |->
                           caller_stale[c]
                           \/ (loop_symbol # <<>> /\ caller_pc[c] = "subscribe")]
    /\ loop_pc' = "unsub_check"
    /\ loop_i' = 1
    /\ loop_symbol' = <<>>
    /\ UNCHANGED <<existing_subscribe_symbol, symbols_to_unsubscribe,
                   caller_pc, caller_arg, connVars, histVars>>

\* _subscribe, line 413: __symbols_to_subscribe = [] binds a new list; a caller
\* that already loaded the old list object will extend the old one. _subscribe
\* returns and its locals are gone.
SubReset ==
    /\ loop_pc = "sub_reset"
    /\ symbols_to_subscribe' = <<>>
    /\ caller_stale' = [c \in Callers |->
                           caller_stale[c] \/ caller_pc[c] = "subscribe"]
    /\ loop_pc' = "unsub_check"
    /\ loop_i' = 1
    /\ loop_symbol' = <<>>
    /\ UNCHANGED <<existing_subscribe_symbol, symbols_to_unsubscribe,
                   caller_pc, caller_arg, connVars, histVars>>

\* _unsubscribe, line 416
UnsubCheck ==
    /\ loop_pc = "unsub_check"
    /\ IF symbols_to_unsubscribe # <<>>
       THEN /\ loop_pc' = "unsub_iter"
            /\ loop_i' = 1
            /\ loop_symbol' = <<>>
       ELSE /\ loop_pc' = "sub_check"
            /\ UNCHANGED loopLocals
    /\ UNCHANGED <<lists, callerVars, connVars, histVars>>

\* _unsubscribe, lines 417-421
UnsubIter ==
    /\ loop_pc = "unsub_iter"
    /\ IF loop_i <= Len(symbols_to_unsubscribe)
       THEN /\ loop_symbol' =
                  IF UnsubscribeFilterKeeps(symbols_to_unsubscribe[loop_i],
                                            existing_subscribe_symbol)
                  THEN Append(loop_symbol, symbols_to_unsubscribe[loop_i])
                  ELSE loop_symbol
            /\ loop_i' = loop_i + 1
            /\ UNCHANGED loop_pc
       ELSE /\ loop_pc' = IF loop_symbol # <<>> THEN "unsub_call" ELSE "unsub_reset"
            /\ UNCHANGED loopLocals
    /\ UNCHANGED <<lists, callerVars, connVars, histVars>>

\* _unsubscribe, line 423
UnsubCall ==
    /\ loop_pc = "unsub_call"
    /\ unsub_calls' = Append(unsub_calls, loop_symbol)
    /\ conn_symbols' = conn_symbols \ Range(loop_symbol)
    /\ loop_pc' = "unsub_filter"
    /\ UNCHANGED <<lists, loopLocals, callerVars, sub_calls, histVars>>

\* _unsubscribe, lines 424-426
UnsubFilter ==
    /\ loop_pc = "unsub_filter"
    /\ existing_subscribe_symbol' = RemoveSymbols(existing_subscribe_symbol, loop_symbol)
    /\ loop_pc' = "unsub_reset"
    /\ UNCHANGED <<symbols_to_subscribe, symbols_to_unsubscribe, loopLocals,
                   callerVars, connVars, histVars>>

\* _unsubscribe, line 427; the pass of run()'s loop ends here
UnsubReset ==
    /\ loop_pc = "unsub_reset"
    /\ symbols_to_unsubscribe' = <<>>
    /\ caller_stale' = [c \in Callers |->
                           caller_stale[c] \/ caller_pc[c] = "unsubscribe"]
    /\ loop_pc' = "sub_check"
    /\ loop_i' = 1
    /\ loop_symbol' = <<>>
    /\ UNCHANGED <<existing_subscribe_symbol, symbols_to_subscribe,
                   caller_pc, caller_arg, connVars, histVars>>

\* one step of the thread in run(): while True: _subscribe(); _unsubscribe()
LoopStep ==
    \/ SubCheck \/ SubIter \/ SubCall \/ SubExtend \/ SubReset
    \/ UnsubCheck \/ UnsubIter \/ UnsubCall \/ UnsubFilter \/ UnsubReset

\* subscribe(symbol), first half: evaluate FyersMarketData.__symbols_to_subscribe
SubscribeLoad(c, symbol) ==
    /\ caller_pc[c] = "idle"
    /\ caller_pc' = [caller_pc EXCEPT ![c] = "subscribe"]
    /\ caller_arg' = [caller_arg EXCEPT ![c] = symbol]
    /\ caller_stale' = [caller_stale EXCEPT ![c] = FALSE]
    /\ n_requests' = n_requests + 1
    /\ requested_sub' = requested_sub \cup Range(symbol)
    /\ UNCHANGED <<lists, loop_pc, loopLocals, connVars, requested_unsub>>

\* subscribe(symbol), second half: .extend(symbol) on the list object loaded
SubscribeExtend(c) ==
    /\ caller_pc[c] = "subscribe"
    /\ symbols_to_subscribe' =
           IF caller_stale[c] THEN symbols_to_subscribe
           ELSE ExtendList(symbols_to_subscribe, caller_arg[c])
    /\ caller_pc' = [caller_pc EXCEPT ![c] = "idle"]
    /\ caller_arg' = [caller_arg EXCEPT ![c] = <<>>]
    /\ caller_stale' = [caller_stale EXCEPT ![c] = FALSE]
    /\ UNCHANGED <<existing_subscribe_symbol, symbols_to_unsubscribe, loop_pc,
                   loopLocals, connVars, histVars>>

\* unsubscribe(symbol), first half
UnsubscribeLoad(c, symbol) ==
    /\ caller_pc[c] = "idle"
    /\ caller_pc' = [caller_pc EXCEPT ![c] = "unsubscribe"]
    /\ caller_arg' = [caller_arg EXCEPT ![c] = symbol]
    /\ caller_stale' = [caller_stale EXCEPT ![c] = FALSE]
    /\ n_requests' = n_requests + 1
    /\ requested_unsub' = requested_unsub \cup Range(symbol)
    /\ UNCHANGED <<lists, loop_pc, loopLocals, connVars, requested_sub>>

\* unsubscribe(symbol), second half
UnsubscribeExtend(c) ==
    /\ caller_pc[c] = "unsubscribe"
    /\ symbols_to_unsubscribe' =
           IF caller_stale[c] THEN symbols_to_unsubscribe
           ELSE ExtendList(symbols_to_unsubscribe, caller_arg[c])
    /\ caller_pc' = [caller_pc EXCEPT ![c] = "idle"]
    /\ caller_arg' = [caller_arg EXCEPT ![c] = <<>>]
    /\ caller_stale' = [caller_stale EXCEPT ![c] = FALSE]
    /\ UNCHANGED <<existing_subscribe_symbol, symbols_to_subscribe, loop_pc,
                   loopLocals, connVars, histVars>>

(***************************************************************************)
(* FyersSymbolParser. A row of the master file keeps the columns the code  *)
(* reads: 13 underlying, 15 strike, 8 expiry, 16 option type, 1 symbol,    *)
(* 9 symbol code, 14 code, and its index label. Strikes are floats in the  *)
(* file: they are held in hundredths, so 17000.0 is 1700000. Dates are     *)
(* days since 1970-01-01.                                                  *)
(***************************************************************************)
Underlyings == {"NIFTY", "BANKNIFTY", "FINNIFTY"}
OptionTypes == {"CE", "PE"}
\* 2022-05-12, 2022-05-19 and 2022-05-26 at 10:00 UTC, and 2022-05-12 at 18:30
\* UTC, which is 2022-05-13 at 00:00 in India
Epochs == {1652349600, 1652380200, 1652954400, 1653559200}
\* (strike, option type) of the contracts listed in the master file
Contracts == {<<1700000, "CE">>, <<1700000, "PE">>, <<1750000, "CE">>}

\* Dates of May and June 2022, in days since 1970-01-01.
May2022(day) == 19112 + day
June2022(day) == 19143 + day
D20220512 == May2022(12)
D20220513 == May2022(13)
D20220515 == May2022(15)
D20220519 == May2022(19)
D20220526 == May2022(26)
D20220601 == June2022(1)

QueryStrikes == {17000, 17500}
QueryExpiries == {D20220512, D20220513, D20220515, D20220519, D20220526}
QueryDates == {D20220512, D20220515, D20220519, D20220526, D20220601}

\* Contents of a master row: the index derivatives, and a row of another
\* underlying.
RowKinds ==
    {<<u, c[1], e, c[2]>> : u \in {"NIFTY", "BANKNIFTY"}, c \in Contracts, e \in Epochs}
        \cup {<<"FINNIFTY", 1700000, 1652349600, "CE">>}

\* The row with index label i: its symbol, symbol code and code are its own.
MasterRow(i, u, k, e, t) ==
    [index |-> i, underlying |-> u, strike |-> k, expiry |-> e, option_type |-> t,
     symbol |-> i, symbol_code |-> 100 + i, code |-> 200 + i]

MasterFiles ==
    UNION {
        {[i \in 1..n |-> MasterRow(i, f[i][1], f[i][2], f[i][3], f[i][4])] :
            f \in [1..n -> RowKinds]} :
        n \in 0..MaxRows}

\* Zones the process may run in, in seconds east of UTC: UTC and India. The
\* code names no zone: fromtimestamp takes the zone of the process.
UtcOffsets == {0, 19800}
SecondsPerDay == 86400

\* epoch2date: datetime.datetime.fromtimestamp(epoch).date()
epoch2date(epoch, offset) == (epoch + offset) \div SecondsPerDay

\* np.int64 of a float: the fraction is dropped
NpInt64(x) == x \div 100

\* df[df[13] == name]
FilterUnderlying(df, name) == SelectSeq(df, LAMBDA r : r.underlying = name)

\* df[15] = df[15].apply(np.int64)
ConvertStrike(df) == [i \in DOMAIN df |-> [df[i] EXCEPT !.strike = NpInt64(@)]]

\* df[8] = df[8].apply(self.epoch2date)
ConvertExpiry(df, offset) ==
    [i \in DOMAIN df |-> [df[i] EXCEPT !.expiry = epoch2date(@, offset)]]

\* drop_duplicates(subset=[8]) left out
DropDuplicatesOmitted(df) == df

\* df.drop_duplicates(subset=[8]): the first row of every expiry is kept
DropDuplicatesExpiry(df) ==
    LET keep == {i \in DOMAIN df : \A j \in 1..(i - 1) : df[j].expiry # df[i].expiry}
        F[i \in 0..Len(df)] ==
            IF i = 0 THEN <<>>
            ELSE IF i \in keep THEN Append(F[i - 1], df[i]) ELSE F[i - 1]
    IN F[Len(df)]

\* df[8] as a list
ExpiryColumn(df) == [i \in DOMAIN df |-> df[i].expiry]

RECURSIVE InsertSorted(_, _)
InsertSorted(x, s) ==
    IF s = <<>> THEN <<x>>
    ELSE IF x < Head(s) THEN <<x>> \o s
    ELSE <<Head(s)>> \o InsertSorted(x, Tail(s))

\* sorted() left out
SortedOmitted(s) == s

\* sorted(): ascending, stable
RECURSIVE Sorted(_)
Sorted(s) ==
    IF s = <<>> THEN <<>>
    ELSE InsertSorted(s[Len(s)], Sorted(SubSeq(s, 1, Len(s) - 1)))

\* next((x for x in self._expiry if x >= signal_date), None)
GetCurrentWeekExpiryOf(calendar, signal_date) ==
    LET hits == {i \in DOMAIN calendar : calendar[i] >= signal_date}
    IN IF hits = {} THEN None
       ELSE Some(calendar[CHOOSE i \in hits : \A j \in hits : i <= j])

\* the three comparisons of get_fyers_symbol_name without the one on column 16
RowMatchesNoOptionType(r, strike_price, exp, option_type) ==
    /\ r.strike = strike_price
    /\ r.expiry = exp

\* (df[15] == strike_price) & (df[8] == expiry) & (df[16] == option_type)
RowMatches(r, strike_price, exp, option_type) ==
    /\ r.strike = strike_price
    /\ r.expiry = exp
    /\ r.option_type = option_type

\* get_fyers_symbol_name: the value returned, or the error raised
GetFyersSymbolNameOf(ndf, bdf, ticker, strike_price, exp, option_type) ==
    LET src == IF ticker = "NIFTY" THEN ndf ELSE bdf
        df == SelectSeq(src, LAMBDA r : RowMatches(r, strike_price, exp, option_type))
    IN IF Len(df) # 1
       THEN [kind |-> "AssertionError", warning_logged |-> Len(df) > 1]
       ELSE [kind |-> "return", symbol |-> df[1].symbol,
             symbol_code |-> df[1].symbol_code, code |-> df[1].code]

ParserNew ==
    /\ nifty_df = None
    /\ banknifty_df = None
    /\ expiry = <<>>
    /\ parser_pc = "new"
    /\ parser_call = [call |-> "none"]

\* FyersSymbolParser.setup. pd.read_csv of a file without a row raises
\* EmptyDataError (line 532): setup() is left by the exception and the parser
\* stays as constructed ("error").
Setup ==
    /\ parser_pc = "new"
    /\ IF master = <<>>
       THEN /\ parser_pc' = "error"
            /\ UNCHANGED <<nifty_df, banknifty_df, expiry>>
       ELSE /\ nifty_df' = ConvertExpiry(ConvertStrike(FilterUnderlying(master, "NIFTY")),
                                        tz_offset)
            /\ banknifty_df' =
                   ConvertExpiry(ConvertStrike(FilterUnderlying(master, "BANKNIFTY")),
                                 tz_offset)
            /\ expiry' = Sorted(ExpiryColumn(DropDuplicatesExpiry(nifty_df')))
            /\ parser_pc' = "ready"
    /\ UNCHANGED <<master, tz_offset, parser_call>>

\* FyersSymbolParser.get_current_week_expiry(signal_date)
GetCurrentWeekExpiry(signal_date) ==
    /\ parser_pc = "ready"
    /\ parser_call' = [call |-> "get_current_week_expiry",
                       signal_date |-> signal_date,
                       outcome |-> GetCurrentWeekExpiryOf(expiry, signal_date)]
    /\ parser_pc' = "called"
    /\ UNCHANGED <<master, tz_offset, nifty_df, banknifty_df, expiry>>

\* FyersSymbolParser.get_fyers_symbol_name(ticker, strike_price, expiry, option_type)
GetFyersSymbolName(ticker, strike_price, exp, option_type) ==
    /\ parser_pc = "ready"
    /\ parser_call' = [call |-> "get_fyers_symbol_name",
                       ticker |-> ticker, strike_price |-> strike_price,
                       expiry |-> exp, option_type |-> option_type,
                       outcome |-> GetFyersSymbolNameOf(nifty_df, banknifty_df, ticker,
                                                        strike_price, exp, option_type)]
    /\ parser_pc' = "called"
    /\ UNCHANGED <<master, tz_offset, nifty_df, banknifty_df, expiry>>

\* the caller has the outcome of its lookup; the parser is unchanged by it
LookupDone ==
    /\ parser_pc = "called"
    /\ parser_pc' = "ready"
    /\ parser_call' = [call |-> "none"]
    /\ UNCHANGED <<master, tz_offset, nifty_df, banknifty_df, expiry>>

(***************************************************************************)
(* The tick cache. Prices are held in hundredths: 430.5 is 43050.          *)
(***************************************************************************)
MarketDataFields ==
    {"symbol", "timestamp", "fyCode", "fyFlag", "pktLen", "ltp", "open_price",
     "high_price", "low_price", "close_price", "min_open_price", "min_high_price",
     "min_low_price", "min_close_price", "min_volume", "last_traded_qty",
     "last_traded_time", "avg_trade_price", "vol_traded_today", "tot_buy_qty",
     "tot_sell_qty"}

TickSymbols == {SBIN, NIFTY50}
TickNumbers == {1, 2}

\* The n-th decoded message of the feed for a symbol: every field differs
\* between two messages.
TickMessage(sym, n) ==
    [symbol |-> sym, timestamp |-> 1652349600 + n, fyCode |-> 7208, fyFlag |-> 2,
     pktLen |-> 200, ltp |-> 43000 + 50 * n, open_price |-> 42800 + n,
     high_price |-> 43200 + n, low_price |-> 42700 + n, close_price |-> 42900 + n,
     min_open_price |-> 43010 + n, min_high_price |-> 43060 + n,
     min_low_price |-> 43000 + n, min_close_price |-> 43040 + n,
     min_volume |-> 100 * n, last_traded_qty |-> 10 * n,
     last_traded_time |-> 1652349599 + n, avg_trade_price |-> 43020 + n,
     vol_traded_today |-> 5000 * n, tot_buy_qty |-> 700 * n, tot_sell_qty |-> 900 * n,
     market_pic |-> "pic"]

WellFormedMessages == {TickMessage(sym, n) : sym \in TickSymbols, n \in TickNumbers}

Without(data, key) == [f \in DOMAIN data \ {key} |-> data[f]]

\* Messages that lack a key the code reads.
MalformedMessages ==
    {Without(TickMessage(SBIN, 1), "market_pic"), Without(TickMessage(SBIN, 2), "symbol")}

Messages == WellFormedMessages \cup MalformedMessages

\* A delivery: the list of decoded messages the callback is called with.
Deliveries == UNION {[1..k -> Messages] : k \in 1..MaxDeliveryLen}

\* MarketData.from_dict: data.pop("market_pic"), then cls(**data)
FromDict(data) ==
    IF "market_pic" \notin DOMAIN data
    THEN [raised |-> "KeyError"]
    ELSE IF DOMAIN Without(data, "market_pic") # MarketDataFields
    THEN [raised |-> "TypeError"]
    ELSE [raised |-> "", value |-> Without(data, "market_pic")]

\* __market_data[symbol] = snapshot, as dict.setdefault
StoreSnapshotKeepFirst(md, symbol, snapshot) ==
    [s \in DOMAIN md \cup {symbol} |-> IF s \in DOMAIN md THEN md[s] ELSE snapshot]

\* __market_data = {symbol: snapshot}
StoreSnapshotAlone(md, symbol, snapshot) ==
    [s \in {symbol} |-> snapshot]

\* the fields of the cached object overwritten one by one, the price first,
\* the others not yet
StoreSnapshotInPlace(md, symbol, snapshot) ==
    [s \in DOMAIN md \cup {symbol} |->
        IF s # symbol THEN md[s]
        ELSE IF s \in DOMAIN md THEN [md[s] EXCEPT !.ltp = snapshot.ltp]
        ELSE snapshot]

\* __market_data[symbol] = snapshot
StoreSnapshot(md, symbol, snapshot) ==
    [s \in DOMAIN md \cup {symbol} |-> IF s = symbol THEN snapshot ELSE md[s]]

TickInit ==
    /\ market_data = [s \in {} |-> None]
    /\ tick_pc = "idle"
    /\ tick_new = None
    /\ tick_error = ""
    /\ n_deliveries = 0
    /\ applied = <<>>
    /\ read_pc = "idle"
    /\ read_symbol = ""
    /\ read_obj = None
    /\ read_result = None
    /\ read_overlap = FALSE

readVars == <<read_pc, read_symbol, read_obj, read_result>>

\* add_market_data, lines 447-449 up to the dict store: data.pop(),
\* data["symbol"], MarketData.from_dict(data); an exception leaves the callback
AddMarketDataParse(delivery) ==
    /\ tick_pc = "idle"
    /\ LET data == delivery[Len(delivery)]
       IN IF "symbol" \notin DOMAIN data
          THEN /\ tick_error' = "KeyError"
               /\ UNCHANGED <<tick_pc, tick_new>>
          ELSE IF FromDict(data).raised # ""
          THEN /\ tick_error' = FromDict(data).raised
               /\ UNCHANGED <<tick_pc, tick_new>>
          ELSE /\ tick_error' = ""
               /\ tick_pc' = "store"
               /\ tick_new' = Some([symbol |-> data.symbol,
                                    snapshot |-> FromDict(data).value,
                                    message |-> data,
                                    delivery |-> delivery])
    /\ n_deliveries' = n_deliveries + 1
    /\ UNCHANGED <<market_data, applied, readVars, read_overlap>>

\* add_market_data, line 449: the store into __market_data
AddMarketDataStore ==
    /\ tick_pc = "store"
    /\ market_data' = StoreSnapshot(market_data, tick_new[1].symbol, tick_new[1].snapshot)
    /\ applied' = Append(applied, tick_new[1].message)
    /\ tick_pc' = "idle"
    /\ tick_new' = None
    /\ read_overlap' = (read_overlap \/ read_pc # "idle")
    /\ UNCHANGED <<tick_error, n_deliveries, readVars>>

\* get_price, line 443: `symbol in FyersMarketData.__market_data`
GetPriceTest(symbol) ==
    /\ read_pc = "idle"
    /\ read_symbol' = symbol
    /\ read_overlap' = FALSE
    /\ read_obj' = None
    /\ IF symbol \in DOMAIN market_data
       THEN /\ read_pc' = "lookup"
            /\ read_result' = None
       ELSE /\ read_pc' = "done"
            /\ read_result' = None
    /\ UNCHANGED <<market_data, tick_pc, tick_new, tick_error, n_deliveries, applied>>

\* get_price, line 442: FyersMarketData.__market_data[symbol]
GetPriceLookup ==
    /\ read_pc = "lookup"
    /\ read_obj' = Some(market_data[read_symbol])
    /\ read_pc' = "attr"
    /\ UNCHANGED <<market_data, tick_pc, tick_new, tick_error, n_deliveries, applied,
                   read_symbol, read_result, read_overlap>>

\* get_price, line 442: .ltp of the object
GetPriceAttr ==
    /\ read_pc = "attr"
    /\ read_result' = Some(read_obj[1].ltp)
    /\ read_pc' = "done"
    /\ UNCHANGED <<market_data, tick_pc, tick_new, tick_error, n_deliveries, applied,
                   read_symbol, read_obj, read_overlap>>

\* get_price returns
GetPriceReturn ==
    /\ read_pc = "done"
    /\ read_pc' = "idle"
    /\ read_symbol' = ""
    /\ read_obj' = None
    /\ read_result' = None
    /\ read_overlap' = FALSE
    /\ UNCHANGED <<market_data, tick_pc, tick_new, tick_error, n_deliveries, applied>>

(***************************************************************************)
(* FyersApi: the access token through setup(). Tokens are numbered: the    *)
(* token file, when it exists, holds token FileToken; every login returns  *)
(* a token that was never used.                                            *)
(***************************************************************************)
FileToken == 1

\* read_token, line 167: the age, in seconds, above which the file's token is
\* regenerated
SevenHours == 25200

\* Ages of the token file, in seconds, when setup() runs.
TokenAges == {0, 3600, 14400, 25199, 25200, 25201, 86399, 86400, 111601}

ProfileResponses == {"ok", "expired", "error"}

\* read_token, lines 163-167: timedelta.days * 86400 + timedelta.seconds > 25200
FileTokenIsOld(age) ==
    (age \div SecondsPerDay) * SecondsPerDay + (age % SecondsPerDay) > SevenHours

\* self._fyers.get_profile(): the answer for the token the client was built
\* with; a token just returned by a login is accepted
GetProfile(token) == IF token = FileToken THEN file_token_status ELSE "ok"

\* a FyersApi before setup()
ApiNew ==
    /\ api_pc = "new"
    /\ token_file = None
    /\ file_token_status = "ok"
    /\ access_token = None
    /\ next_token = FileToken + 1
    /\ fyers_token = None
    /\ market_token = None
    /\ order_token = None

\* generate_access_token: self._access_token = the token of a new login, then
\* write_token
GenerateAccessToken ==
    /\ access_token' = Some(next_token)
    /\ next_token' = next_token + 1
    /\ token_file' = Some([access_token |-> next_token, age |-> 0])

\* setup, lines 210-211: the token file exists, read_token()
ReadToken ==
    /\ api_pc = "new"
    /\ token_file # None
    /\ IF FileTokenIsOld(token_file[1].age)
       THEN GenerateAccessToken
       ELSE /\ access_token' = Some(token_file[1].access_token)
            /\ UNCHANGED <<token_file, next_token>>
    /\ api_pc' = "client"
    /\ UNCHANGED <<file_token_status, fyers_token, market_token, order_token>>

\* setup, lines 212-213: no token file, generate_access_token()
GenerateFirstToken ==
    /\ api_pc = "new"
    /\ token_file = None
    /\ GenerateAccessToken
    /\ api_pc' = "client"
    /\ UNCHANGED <<file_token_status, fyers_token, market_token, order_token>>

\* setup, lines 214-216: self._fyers = fyersModel.FyersModel(token=self._access_token)
BuildClient ==
    /\ api_pc = "client"
    /\ fyers_token' = access_token
    /\ api_pc' = "check"
    /\ UNCHANGED <<token_file, file_token_status, access_token, next_token,
                   market_token, order_token>>

\* setup, line 217: self.check(); its result is dropped
Check ==
    /\ api_pc = "check"
    /\ IF GetProfile(fyers_token[1]) = "expired"
       THEN GenerateAccessToken
       ELSE UNCHANGED <<access_token, next_token, token_file>>
    /\ api_pc' = "market"
    /\ UNCHANGED <<file_token_status, fyers_token, market_token, order_token>>

\* setup_fyers_market_data
SetupFyersMarketData ==
    /\ api_pc = "market"
    /\ market_token' = access_token
    /\ api_pc' = "order"
    /\ UNCHANGED <<token_file, file_token_status, access_token, next_token,
                   fyers_token, order_token>>

\* setup_fyers_order_data
SetupFyersOrderData ==
    /\ api_pc = "order"
    /\ order_token' = access_token
    /\ api_pc' = "parser"
    /\ UNCHANGED <<token_file, file_token_status, access_token, next_token,
                   fyers_token, market_token>>

\* setup_fyers_symbol_parser: FyersSymbolParser().setup(); setup() returns, or
\* is left by the exception of the parser's setup ("failed")
SetupFyersSymbolParser ==
    /\ api_pc = "parser"
    /\ Setup
    /\ api_pc' = IF parser_pc' = "error" THEN "failed" ELSE "done"
    /\ UNCHANGED <<token_file, file_token_status, access_token, next_token,
                   fyers_token, market_token, order_token>>

Init ==
    /\ SubInit
    /\ trace = <<>>
    /\ master = <<>>
    /\ tz_offset = 0
    /\ ParserNew
    /\ TickInit
    /\ ApiNew

AllIdle == \A c \in Callers : caller_pc[c] = "idle"

(***************************************************************************)
(* Concurrent runs: caller threads interleave with the loop at every step. *)
(***************************************************************************)
Loop == LoopStep /\ UNCHANGED <<trace, parserVars, tickVars, apiVars>>

Subscribe ==
    /\ \E c \in Callers :
          \/ /\ n_requests < MaxRequests
             /\ \E symbol \in SymbolLists(MaxArgLen) : SubscribeLoad(c, symbol)
          \/ SubscribeExtend(c)
    /\ UNCHANGED <<trace, parserVars, tickVars, apiVars>>

Unsubscribe ==
    /\ \E c \in Callers :
          \/ /\ n_requests < MaxRequests
             /\ \E symbol \in SymbolLists(MaxArgLen) : UnsubscribeLoad(c, symbol)
          \/ UnsubscribeExtend(c)
    /\ UNCHANGED <<trace, parserVars, tickVars, apiVars>>

Next == Loop \/ Subscribe \/ Unsubscribe

Spec == Init /\ [][Next]_vars

(***************************************************************************)
(* Sequential runs: every call of subscribe()/unsubscribe() is made and    *)
(* returns between two passes of the loop. trace records the calls, each   *)
(* with the state it was made in, and the passes (consecutive passes are   *)
(* recorded once).                                                         *)
(***************************************************************************)
RequestEvent(op, symbol) ==
    [op |-> op, arg |-> symbol,
     active |-> Range(existing_subscribe_symbol),
     nsub |-> Len(sub_calls), nunsub |-> Len(unsub_calls)]

PassEvent == [op |-> "pass", arg |-> <<>>, active |-> {}, nsub |-> 0, nunsub |-> 0]

SeqLoop ==
    /\ AllIdle
    /\ LoopStep
    /\ trace' = IF loop_pc # "sub_check" /\ loop_pc' = "sub_check"
                   /\ (trace = <<>> \/ Last(trace).op # "pass")
                THEN Append(trace, PassEvent)
                ELSE trace
    /\ UNCHANGED <<parserVars, tickVars, apiVars>>

SeqSubscribe ==
    /\ UNCHANGED <<parserVars, tickVars, apiVars>>
    /\ \E c \in Callers :
        \/ /\ AllIdle
           /\ loop_pc = "sub_check"
           /\ n_requests < MaxSeqRequests
           /\ \E symbol \in SymbolLists(MaxArgLen) :
                 /\ SubscribeLoad(c, symbol)
                 /\ trace' = Append(trace, RequestEvent("subscribe", symbol))
        \/ SubscribeExtend(c) /\ UNCHANGED trace

SeqUnsubscribe ==
    /\ UNCHANGED <<parserVars, tickVars, apiVars>>
    /\ \E c \in Callers :
        \/ /\ AllIdle
           /\ loop_pc = "sub_check"
           /\ n_requests < MaxSeqRequests
           /\ \E symbol \in SymbolLists(MaxArgLen) :
                 /\ UnsubscribeLoad(c, symbol)
                 /\ trace' = Append(trace, RequestEvent("unsubscribe", symbol))
        \/ UnsubscribeExtend(c) /\ UNCHANGED trace

SeqNext == SeqLoop \/ SeqSubscribe \/ SeqUnsubscribe

SeqSpec == Init /\ [][SeqNext]_vars

(***************************************************************************)
(* The symbol parser: setup() of a master file, then lookups.              *)
(***************************************************************************)
ParserInit ==
    /\ SubInit
    /\ trace = <<>>
    /\ master \in MasterFiles
    /\ tz_offset \in UtcOffsets
    /\ ParserNew
    /\ TickInit
    /\ ApiNew

ParserSetup == Setup /\ UNCHANGED <<subVars, trace, tickVars, apiVars>>

ParserCurrentWeekExpiry ==
    /\ \E signal_date \in QueryDates : GetCurrentWeekExpiry(signal_date)
    /\ UNCHANGED <<subVars, trace, tickVars, apiVars>>

ParserSymbolName ==
    /\ \E ticker \in Underlyings, strike_price \in QueryStrikes,
          exp \in QueryExpiries, option_type \in OptionTypes :
          GetFyersSymbolName(ticker, strike_price, exp, option_type)
    /\ UNCHANGED <<subVars, trace, tickVars, apiVars>>

ParserLookupDone == LookupDone /\ UNCHANGED <<subVars, trace, tickVars, apiVars>>

ParserNext ==
    ParserSetup \/ ParserCurrentWeekExpiry \/ ParserSymbolName \/ ParserLookupDone

ParserSpec == ParserInit /\ [][ParserNext]_vars

(***************************************************************************)
(* The tick cache: the streaming callback and a reader of get_price.       *)
(***************************************************************************)
TickSpecInit ==
    /\ SubInit
    /\ trace = <<>>
    /\ master = <<>>
    /\ tz_offset = 0
    /\ ParserNew
    /\ TickInit
    /\ ApiNew

otherThanTick == <<subVars, trace, parserVars, apiVars>>

TickParse ==
    /\ n_deliveries < MaxDeliveries
    /\ \E delivery \in Deliveries : AddMarketDataParse(delivery)
    /\ UNCHANGED otherThanTick

TickStore == AddMarketDataStore /\ UNCHANGED otherThanTick

ReadTest ==
    /\ \E symbol \in TickSymbols : GetPriceTest(symbol)
    /\ UNCHANGED otherThanTick

ReadLookup == GetPriceLookup /\ UNCHANGED otherThanTick

ReadAttr == GetPriceAttr /\ UNCHANGED otherThanTick

ReadReturn == GetPriceReturn /\ UNCHANGED otherThanTick

TickNext == TickParse \/ TickStore \/ ReadTest \/ ReadLookup \/ ReadAttr \/ ReadReturn

TickSpec == TickSpecInit /\ [][TickNext]_vars

(***************************************************************************)
(* Claims about the subscription state.                                    *)
(***************************************************************************)
Active == Range(existing_subscribe_symbol)
PendingSubscribe == Range(symbols_to_subscribe)

\* C1: in every reachable state of a concurrent run, no symbol is both in the
\* active collection and in the pending-subscribe collection.
C1_ActivePendingDisjoint == Active \cap PendingSubscribe = {}

\* Nothing is pending, no call is in progress and the loop is between passes.
Quiescent ==
    /\ AllIdle
    /\ loop_pc = "sub_check"
    /\ symbols_to_subscribe = <<>>
    /\ symbols_to_unsubscribe = <<>>

\* C2: no subscribe request is lost: once the loop has drained everything that
\* was requested, every symbol passed to subscribe() and never passed to
\* unsubscribe() is active (from a quiescent state the loop changes nothing, so
\* a symbol missing there never becomes active).
C2_NoRequestLost ==
    Quiescent => \A s \in requested_sub \ requested_unsub : s \in Active

\* Number of the calls made after the first `from` ones that name s.
CallsNaming(calls, from, s) ==
    Cardinality({i \in (from + 1)..Len(calls) : Member(s, calls[i])})

\* trace ends with subscribe([s]); subscribe([s]); pass, s not active before.
TwiceThenPass(s) ==
    /\ Len(trace) >= 3
    /\ trace[Len(trace) - 2].op = "subscribe"
    /\ trace[Len(trace) - 2].arg = <<s>>
    /\ s \notin trace[Len(trace) - 2].active
    /\ trace[Len(trace) - 1].op = "subscribe"
    /\ trace[Len(trace) - 1].arg = <<s>>
    /\ trace[Len(trace)].op = "pass"

\* C3: subscribe([s]) called twice for a symbol s that is not active, followed
\* by one pass of the loop, makes exactly one subscribe call naming s on the
\* connection.
C3_TwiceOneCall ==
    \A s \in Symbols :
        TwiceThenPass(s) =>
            CallsNaming(sub_calls, trace[Len(trace) - 2].nsub, s) = 1

C3_Witness ==
    /\ TwiceThenPass(SBIN)
    /\ CallsNaming(sub_calls, trace[Len(trace) - 2].nsub, SBIN) = 1
    /\ Len(sub_calls) >= 2

\* trace ends with subscribe([s]); pass; unsubscribe([s]); pass, s not active
\* before.
SubPassUnsubPass(s) ==
    /\ Len(trace) >= 4
    /\ trace[Len(trace) - 3].op = "subscribe"
    /\ trace[Len(trace) - 3].arg = <<s>>
    /\ s \notin trace[Len(trace) - 3].active
    /\ trace[Len(trace) - 2].op = "pass"
    /\ trace[Len(trace) - 1].op = "unsubscribe"
    /\ trace[Len(trace) - 1].arg = <<s>>
    /\ trace[Len(trace)].op = "pass"

\* C4: subscribe([s]); pass; unsubscribe([s]); pass, for s not active at the
\* start, ends with s not active, after exactly one subscribe call and exactly
\* one unsubscribe call naming s.
C4_SubscribeThenUnsubscribe ==
    \A s \in Symbols :
        SubPassUnsubPass(s) =>
            /\ s \notin Active
            /\ CallsNaming(sub_calls, trace[Len(trace) - 3].nsub, s) = 1
            /\ CallsNaming(unsub_calls, trace[Len(trace) - 3].nunsub, s) = 1

C4_Witness ==
    /\ SubPassUnsubPass(SBIN)
    /\ SBIN \notin Active
    /\ NIFTY50 \in Active
    /\ Len(unsub_calls) = 1

(***************************************************************************)
(* Claims about the symbol parser.                                         *)
(***************************************************************************)
\* The rows setup() loaded that a (ticker, strike, expiry, option type) names.
MatchingRows(ticker, strike_price, exp, option_type) ==
    {r \in Range(nifty_df) \cup Range(banknifty_df) :
        /\ r.underlying = ticker
        /\ r.strike = strike_price
        /\ r.expiry = exp
        /\ r.option_type = option_type}

CallMatchingRows ==
    MatchingRows(parser_call.ticker, parser_call.strike_price,
                 parser_call.expiry, parser_call.option_type)

SymbolNameCalled ==
    parser_pc = "called" /\ parser_call.call = "get_fyers_symbol_name"

\* The underlyings setup() keeps a table of.
IndexedUnderlyings == {"NIFTY", "BANKNIFTY"}

\* C5: for an indexed underlying, a lookup that matches no row and a lookup
\* that matches more than one row both raise an error, and the two errors are
\* of different kinds (NotFoundError and DataIntegrityError).
C5_DistinctErrorKinds ==
    (SymbolNameCalled /\ parser_call.ticker \in IndexedUnderlyings) =>
        /\ Cardinality(CallMatchingRows) # 1 => parser_call.outcome.kind # "return"
        /\ CallMatchingRows = {} =>
              \A ticker \in IndexedUnderlyings, strike_price \in QueryStrikes,
                 exp \in QueryExpiries, option_type \in OptionTypes :
                 Cardinality(MatchingRows(ticker, strike_price, exp, option_type)) > 1 =>
                     GetFyersSymbolNameOf(nifty_df, banknifty_df, ticker, strike_price,
                                          exp, option_type).kind
                         # parser_call.outcome.kind

\* C6: a lookup that matches exactly one loaded row returns the symbol, the
\* symbol code and the code of that row.
C6_UniqueRowReturned ==
    (SymbolNameCalled /\ Cardinality(CallMatchingRows) = 1) =>
        LET r == CHOOSE x \in CallMatchingRows : TRUE
        IN parser_call.outcome =
               [kind |-> "return", symbol |-> r.symbol,
                symbol_code |-> r.symbol_code, code |-> r.code]

C6_Witness ==
    /\ SymbolNameCalled
    /\ Cardinality(CallMatchingRows) = 1
    /\ parser_call.ticker = "NIFTY"
    /\ Len(nifty_df) = 2
    /\ nifty_df[1].strike = nifty_df[2].strike
    /\ nifty_df[1].expiry = nifty_df[2].expiry
    /\ parser_call.outcome.kind = "return"
    /\ parser_call.outcome.symbol = 2

ExpiryCalled ==
    parser_pc = "called" /\ parser_call.call = "get_current_week_expiry"

Minimum(S) == CHOOSE x \in S : \A y \in S : x <= y

\* C7: get_current_week_expiry(d) returns the least expiry of the calendar that
\* is >= d, and None when every expiry is before d; with the calendar
\* [2022-05-12, 2022-05-19, 2022-05-26], 2022-05-15 gives 2022-05-19 and
\* 2022-06-01 gives None.
C7_NextExpiry ==
    /\ ExpiryCalled =>
          LET later == {e \in Range(expiry) : e >= parser_call.signal_date}
          IN parser_call.outcome = IF later = {} THEN None ELSE Some(Minimum(later))
    /\ parser_pc = "ready" =>
          LET calendar == Sorted(<<D20220526, D20220512, D20220519>>)
          IN /\ GetCurrentWeekExpiryOf(calendar, D20220515) = Some(D20220519)
             /\ GetCurrentWeekExpiryOf(calendar, D20220601) = None

C7_Witness ==
    /\ ExpiryCalled
    /\ expiry = <<D20220512, D20220519>>
    /\ master[1].expiry > master[2].expiry
    /\ parser_call.signal_date = D20220515
    /\ parser_call.outcome = Some(D20220519)

(***************************************************************************)
(* Claims about the tick cache.                                            *)
(***************************************************************************)
\* The price of the last message stored for a symbol, None if there is none.
LastAppliedPrice(symbol) ==
    LET idx == {i \in DOMAIN applied : applied[i].symbol = symbol}
    IN IF idx = {} THEN None
       ELSE Some(applied[CHOOSE i \in idx : \A j \in idx : j <= i].ltp)

\* C8: get_price(S), called after a sequence of tick deliveries, returns the
\* last-traded-price of the most recent tick applied for S, and None if no tick
\* was applied for S.
C8_LastPrice ==
    (read_pc = "done" /\ ~read_overlap) => read_result = LastAppliedPrice(read_symbol)

C8_Witness ==
    /\ read_pc = "done"
    /\ ~read_overlap
    /\ read_symbol = SBIN
    /\ Len(applied) = 3
    /\ applied[1] = TickMessage(SBIN, 2)
    /\ applied[2] = TickMessage(NIFTY50, 2)
    /\ applied[3] = TickMessage(SBIN, 1)
    /\ read_result = Some(43050)

\* C9: storing a tick for a symbol T leaves the snapshot of every other symbol
\* unchanged.
C9_OtherSnapshotsKept ==
    [][(tick_pc = "store" /\ tick_pc' = "idle") =>
          \A s \in DOMAIN market_data :
              s # tick_new[1].symbol =>
                  s \in DOMAIN market_data' /\ market_data'[s] = market_data[s]]_vars

C9_Witness ==
    /\ tick_pc = "idle"
    /\ Len(applied) = 2
    /\ applied[1].symbol = SBIN
    /\ applied[2].symbol = NIFTY50
    /\ DOMAIN market_data = {SBIN, NIFTY50}

\* C10: the object a reader of get_price holds is always the complete snapshot
\* of one tick that was stored for the symbol, never a mix of two ticks; so is
\* every object in the cache.
StoredSnapshots(symbol) ==
    {Without(applied[i], "market_pic") : i \in {j \in DOMAIN applied : applied[j].symbol = symbol}}

C10_NoTornSnapshot ==
    /\ read_obj # None => read_obj[1] \in StoredSnapshots(read_symbol)
    /\ \A s \in DOMAIN market_data : market_data[s] \in StoredSnapshots(s)

C10_Witness ==
    /\ read_pc = "attr"
    /\ read_obj[1] # market_data[read_symbol]
    /\ read_obj[1] = Without(TickMessage(SBIN, 1), "market_pic")
    /\ market_data[SBIN] = Without(TickMessage(SBIN, 2), "market_pic")

(***************************************************************************)
(* C11: malformed tick messages.                                           *)
(***************************************************************************)
\* C11: a malformed message is dropped: the cache is left as it was and no
\* error leaves add_market_data, whatever the delivery (tick_error is the
\* exception the last call of the callback raised, "" if it returned).
C11_MalformedDropped ==
    /\ tick_error = ""
    /\ \A s \in DOMAIN market_data : market_data[s] \in StoredSnapshots(s)

(***************************************************************************)
(* Runs in which a call on the streaming connection may fail: the call     *)
(* raises, nothing in run(), _subscribe or _unsubscribe catches it, and    *)
(* the thread of run() ends ("dead").                                      *)
(***************************************************************************)
\* _subscribe, line 411, when self._web_socket.subscribe raises
SubCallRaises ==
    /\ loop_pc = "sub_call"
    /\ loop_pc' = "dead"
    /\ UNCHANGED <<lists, loopLocals, callerVars, connVars, histVars>>

\* _unsubscribe, line 423, when self._web_socket.unsubscribe raises
UnsubCallRaises ==
    /\ loop_pc = "unsub_call"
    /\ loop_pc' = "dead"
    /\ UNCHANGED <<lists, loopLocals, callerVars, connVars, histVars>>

FailSubCall == SubCallRaises /\ UNCHANGED <<trace, parserVars, tickVars, apiVars>>

FailUnsubCall == UnsubCallRaises /\ UNCHANGED <<trace, parserVars, tickVars, apiVars>>

FailNext == Loop \/ Subscribe \/ Unsubscribe \/ FailSubCall \/ FailUnsubCall

FailSpec == Init /\ [][FailNext]_vars

\* C12: a failing subscribe or unsubscribe call is not raised out of the loop:
\* the thread of run() keeps running (and so retries the symbols on its next
\* pass).
C12_LoopSurvivesFailure == loop_pc # "dead"

(***************************************************************************)
(* C13, C14: what a pass does with requests that are not actionable.       *)
(***************************************************************************)
\* C13: when a pass of the loop has ended and no caller has enqueued since,
\* the pending-subscribe and the pending-unsubscribe lists are both empty,
\* whether or not any of their symbols was actionable.
C13_PendingDrained ==
    (trace # <<>> /\ Last(trace).op = "pass") =>
        /\ symbols_to_subscribe = <<>>
        /\ symbols_to_unsubscribe = <<>>

\* a request for an active symbol, nothing actionable, has been drained
C13_Witness ==
    /\ Len(trace) = 3
    /\ trace[2].op = "subscribe"
    /\ trace[2].arg = <<NIFTY50>>
    /\ NIFTY50 \in trace[2].active
    /\ trace[3].op = "pass"
    /\ symbols_to_subscribe = <<>>
    /\ symbols_to_unsubscribe = <<>>
    /\ Len(sub_calls) = 1

\* trace ends with pass; op([s]); pass: the request was the only one the last
\* pass had to handle.
AloneThenPass(op, s) ==
    /\ Len(trace) >= 3
    /\ trace[Len(trace) - 2].op = "pass"
    /\ trace[Len(trace) - 1].op = op
    /\ trace[Len(trace) - 1].arg = <<s>>
    /\ trace[Len(trace)].op = "pass"

\* The connection calls and the active symbols are what they were when the
\* last request of trace was made.
NothingDoneSinceRequest ==
    /\ Len(sub_calls) = trace[Len(trace) - 1].nsub
    /\ Len(unsub_calls) = trace[Len(trace) - 1].nunsub
    /\ Active = trace[Len(trace) - 1].active

\* C14: subscribe([s]) for an active s is dropped by the next pass (no call on
\* the connection, active unchanged, the pass completes), and so is
\* unsubscribe([s]) for an s that is not active.
C14_InactionableDropped ==
    \A s \in Symbols :
        /\ (AloneThenPass("subscribe", s) /\ s \in trace[Len(trace) - 1].active)
              => NothingDoneSinceRequest
        /\ (AloneThenPass("unsubscribe", s) /\ s \notin trace[Len(trace) - 1].active)
              => NothingDoneSinceRequest

\* pass; subscribe([NIFTY50]) while active; pass; unsubscribe([SBIN]) while
\* not active; pass
C14_Witness ==
    /\ Len(trace) = 5
    /\ trace[2].op = "subscribe"
    /\ trace[2].arg = <<NIFTY50>>
    /\ NIFTY50 \in trace[2].active
    /\ AloneThenPass("unsubscribe", SBIN)
    /\ SBIN \notin trace[4].active
    /\ Len(sub_calls) = 1
    /\ unsub_calls = <<>>

(***************************************************************************)
(* C15: the expiry calendar.                                               *)
(***************************************************************************)
\* C15: once setup() has run, _expiry is strictly increasing (ascending, no
\* date twice), whatever the master file.
C15_ExpiryStrictlyIncreasing ==
    parser_pc # "new" =>
        \A i, j \in DOMAIN expiry : i < j => expiry[i] < expiry[j]

\* two NIFTY rows of one expiry date give a calendar of one date
C15_Witness ==
    /\ parser_pc = "ready"
    /\ Len(nifty_df) = 2
    /\ nifty_df[1].expiry = nifty_df[2].expiry
    /\ expiry = <<D20220512>>

(***************************************************************************)
(* C16: the batches the loop sends.                                        *)
(***************************************************************************)
\* [x for x in pending[:n] if x not in existing]
SubscribeBatchOf(pending, n, existing) ==
    LET Keeps(x) == ~Member(x, existing)
    IN SelectSeq(SubSeq(pending, 1, n), Keeps)

\* [x for x in pending[:n] if x in existing]
UnsubscribeBatchOf(pending, n, existing) ==
    LET Keeps(x) == Member(x, existing)
    IN SelectSeq(SubSeq(pending, 1, n), Keeps)

\* C16: the loop calls subscribe on the connection only with a non-empty batch
\* that is exactly the pending-subscribe symbols that are not active (all of
\* the pending list when the comprehension reaches its end), and unsubscribe
\* only with a non-empty batch of pending-unsubscribe symbols that are active:
\* no symbol of a subscribe batch is active, every symbol of an unsubscribe
\* batch is.
C16_BatchIsDifference ==
    /\ loop_pc \in {"sub_iter", "sub_call"} =>
          /\ loop_i - 1 <= Len(symbols_to_subscribe)
          /\ loop_symbol = SubscribeBatchOf(symbols_to_subscribe, loop_i - 1,
                                            existing_subscribe_symbol)
    /\ loop_pc = "sub_call" =>
          /\ loop_symbol # <<>>
          /\ \A x \in Range(loop_symbol) : x \notin Active /\ x \in PendingSubscribe
    /\ loop_pc \in {"unsub_iter", "unsub_call"} =>
          /\ loop_i - 1 <= Len(symbols_to_unsubscribe)
          /\ loop_symbol = UnsubscribeBatchOf(symbols_to_unsubscribe, loop_i - 1,
                                              existing_subscribe_symbol)
    /\ loop_pc = "unsub_call" =>
          /\ loop_symbol # <<>>
          /\ \A x \in Range(loop_symbol) :
                x \in Active /\ Member(x, symbols_to_unsubscribe)

\* about to unsubscribe SBIN, after a subscribe call whose pending list also
\* named an active symbol
C16_Witness ==
    /\ loop_pc = "unsub_call"
    /\ loop_symbol = <<SBIN>>
    /\ Len(sub_calls) = 2
    /\ sub_calls[2] = <<SBIN>>
    /\ Active = {NIFTY50, NIFTYBANK, SBIN}

(***************************************************************************)
(* C17: the active list and the connection.                                *)
(***************************************************************************)
\* C17: between two passes of the loop (every connection call having
\* succeeded), the active symbols are the symbols the connection streams:
\* those named in subscribe calls and not in a later unsubscribe call.
C17_ActiveIsConnection ==
    loop_pc = "sub_check" => Active = conn_symbols

\* a pass has ended after an unsubscribe call, with symbols still streamed
C17_Witness ==
    /\ loop_pc = "sub_check"
    /\ Len(unsub_calls) = 1
    /\ unsub_calls[1] = <<NIFTY50>>
    /\ Active = {NIFTYBANK}
    /\ conn_symbols = {NIFTYBANK}

(***************************************************************************)
(* C18: the lists as sets.                                                 *)
(***************************************************************************)
\* no element appears twice in the list l
NoDuplicates(l) == \A i, j \in DOMAIN l : l[i] = l[j] => i = j

\* C18: the active list names each symbol at most once, and so does every
\* batch sent to the connection, even when a symbol was requested several
\* times before a pass.
C18_ListsAreSets ==
    /\ NoDuplicates(existing_subscribe_symbol)
    /\ \A i \in DOMAIN sub_calls : NoDuplicates(sub_calls[i])
    /\ \A i \in DOMAIN unsub_calls : NoDuplicates(unsub_calls[i])

(***************************************************************************)
(* C19: the expiry calendar and the indexed rows.                          *)
(***************************************************************************)
\* the expiry dates of the rows setup() holds, for both underlyings
IndexedExpiries ==
    {nifty_df[i].expiry : i \in DOMAIN nifty_df}
        \cup {banknifty_df[i].expiry : i \in DOMAIN banknifty_df}

\* C19: once setup() has run, the expiry calendar contains the expiry date of
\* every row of the symbol index, NIFTY and BANKNIFTY rows alike.
C19_CalendarCoversIndex ==
    parser_pc # "new" => IndexedExpiries \subseteq Range(expiry)

(***************************************************************************)
(* Runs in which calls of subscribe()/unsubscribe() are made one after the *)
(* other, each returning before the loop's next step, and between any two  *)
(* of the loop's _subscribe and _unsubscribe calls. trace records the      *)
(* calls in the order they were made.                                      *)
(***************************************************************************)
BetweenLoopCalls == loop_pc \in {"sub_check", "unsub_check"}

OrderLoop ==
    /\ AllIdle
    /\ LoopStep
    /\ UNCHANGED <<trace, parserVars, tickVars, apiVars>>

OrderSubscribe ==
    /\ UNCHANGED <<parserVars, tickVars, apiVars>>
    /\ \E c \in Callers :
        \/ /\ AllIdle
           /\ BetweenLoopCalls
           /\ n_requests < MaxRequests
           /\ \E symbol \in SymbolLists(MaxArgLen) :
                 /\ SubscribeLoad(c, symbol)
                 /\ trace' = Append(trace, RequestEvent("subscribe", symbol))
        \/ SubscribeExtend(c) /\ UNCHANGED trace

OrderUnsubscribe ==
    /\ UNCHANGED <<parserVars, tickVars, apiVars>>
    /\ \E c \in Callers :
        \/ /\ AllIdle
           /\ BetweenLoopCalls
           /\ n_requests < MaxRequests
           /\ \E symbol \in SymbolLists(MaxArgLen) :
                 /\ UnsubscribeLoad(c, symbol)
                 /\ trace' = Append(trace, RequestEvent("unsubscribe", symbol))
        \/ UnsubscribeExtend(c) /\ UNCHANGED trace

OrderNext == OrderLoop \/ OrderSubscribe \/ OrderUnsubscribe

OrderSpec == Init /\ [][OrderNext]_vars

\* the last two calls made are subscribe([s]) then unsubscribe([s])
SubscribeThenUnsubscribe(s) ==
    /\ Len(trace) >= 2
    /\ trace[Len(trace) - 1].op = "subscribe"
    /\ trace[Len(trace) - 1].arg = <<s>>
    /\ trace[Len(trace)].op = "unsubscribe"
    /\ trace[Len(trace)].arg = <<s>>

\* C20: requests take effect in the order they were made: after subscribe([s])
\* then unsubscribe([s]), with no later request, s is not active once the
\* loop has drained both pending lists, wherever the two calls fell between
\* the loop's _subscribe and _unsubscribe calls.
C20_RequestsInOrder ==
    \A s \in Symbols :
        (Quiescent /\ SubscribeThenUnsubscribe(s)) => s \notin Active

(***************************************************************************)
(* C21: deliveries of several messages.                                    *)
(***************************************************************************)
\* the last message of the delivery that names the symbol
LastMessageFor(delivery, symbol) ==
    LET idx == {i \in DOMAIN delivery : delivery[i].symbol = symbol}
    IN delivery[CHOOSE i \in idx : \A j \in idx : j <= i]

\* C21: when add_market_data returns from a delivery of well-formed messages,
\* every message of the delivery has been applied: each symbol the delivery
\* names has, in the cache, the snapshot of the delivery's message for it.
C21_EveryMessageApplied ==
    [][(tick_pc = "store" /\ tick_pc' = "idle"
        /\ \A i \in DOMAIN tick_new[1].delivery :
              tick_new[1].delivery[i] \in WellFormedMessages)
       => \A i \in DOMAIN tick_new[1].delivery :
             LET symbol == tick_new[1].delivery[i].symbol
             IN /\ symbol \in DOMAIN market_data'
                /\ market_data'[symbol] =
                      Without(LastMessageFor(tick_new[1].delivery, symbol),
                              "market_pic")]_vars

(***************************************************************************)
(* C22: the underlying of the row a lookup returns.                        *)
(***************************************************************************)
\* the rows setup() holds whose symbol is the one the last lookup returned
RowsReturned ==
    {r \in Range(nifty_df) \cup Range(banknifty_df) :
        r.symbol = parser_call.outcome.symbol}

\* C22: get_fyers_symbol_name only returns a row of the requested underlying;
\* a lookup for an underlying that is not indexed (neither NIFTY nor
\* BANKNIFTY) ends in an error and never returns a row of another underlying.
C22_RowOfRequestedUnderlying ==
    (SymbolNameCalled /\ parser_call.outcome.kind = "return") =>
        /\ parser_call.ticker \in IndexedUnderlyings
        /\ \A r \in RowsReturned : r.underlying = parser_call.ticker

(***************************************************************************)
(* Runs of FyersApi.setup(), from every state of the token file.           *)
(***************************************************************************)
\* Master files of at most one row.
ApiMasterFiles == {m \in MasterFiles : Len(m) <= 1}

ApiInit ==
    /\ SubInit
    /\ trace = <<>>
    /\ master \in ApiMasterFiles
    /\ tz_offset = 0
    /\ ParserNew
    /\ TickInit
    /\ api_pc = "new"
    /\ access_token = None
    /\ next_token = FileToken + 1
    /\ fyers_token = None
    /\ market_token = None
    /\ order_token = None
    /\ \/ /\ token_file = None
          /\ file_token_status = "ok"
       \/ /\ token_file \in {Some([access_token |-> FileToken, age |-> a]) :
                              a \in TokenAges}
          /\ file_token_status \in ProfileResponses

otherThanApi == <<subVars, trace, tickVars>>

ApiReadToken == ReadToken /\ UNCHANGED <<otherThanApi, parserVars>>

ApiGenerateFirstToken == GenerateFirstToken /\ UNCHANGED <<otherThanApi, parserVars>>

ApiBuildClient == BuildClient /\ UNCHANGED <<otherThanApi, parserVars>>

ApiCheck == Check /\ UNCHANGED <<otherThanApi, parserVars>>

ApiMarketData == SetupFyersMarketData /\ UNCHANGED <<otherThanApi, parserVars>>

ApiOrderData == SetupFyersOrderData /\ UNCHANGED <<otherThanApi, parserVars>>

ApiSymbolParser == SetupFyersSymbolParser /\ UNCHANGED otherThanApi

ApiNext ==
    \/ ApiReadToken
    \/ ApiGenerateFirstToken
    \/ ApiBuildClient
    \/ ApiCheck
    \/ ApiMarketData
    \/ ApiOrderData
    \/ ApiSymbolParser

ApiSpec == ApiInit /\ [][ApiNext]_vars

\* C23: when setup() has completed, the REST client and both streaming threads
\* were built from the same token, the current one (self._access_token),
\* whether the token file was absent, fresh or older than 7 hours, and
\* whether or not check() regenerated the token.
C23_OneCurrentToken ==
    api_pc = "done" =>
        /\ fyers_token = access_token
        /\ market_token = access_token
        /\ order_token = access_token

====
